---- MODULE Spec2Model ----
(***************************************************************************)
(* WhatsApp multi-session gateway (index.js + logger.js).                  *)
(*                                                                         *)
(* The state is the registry `clients`, the QR timer map `qrTimers`, the   *)
(* Node timer list, the Client objects created so far with the response    *)
(* object each one's handlers close over, the credential directories on    *)
(* disk, and the DELETE requests suspended at an await.  Node runs one     *)
(* callback at a time, so every action is one synchronous run of a handler *)
(* between two suspension points.                                          *)
(*                                                                         *)
(* Every setTimeout of index.js has the same delay (30000 ms), so pending  *)
(* timers expire in the order they were armed: `timers` is a FIFO list and *)
(* clearTimeout removes an element from it.                                *)
(*                                                                         *)
(* Left out: lineId (carried through, decides no branch), index.js's log   *)
(* lines, and faults of the local machine (qrcode.toDataURL, fs.removeSync *)
(* and fs.writeFileSync are taken to succeed).                             *)
(*                                                                         *)
(* The server is studied in separate runs: Spec (the HTTP routes and the   *)
(* session lifecycle), SpecFetch (fetchRegisteredPhones), SpecBoot (the    *)
(* bootstrap loop and the sessions it resumes) and SpecMsg (inbound        *)
(* message events of ready sessions).  SpecLog studies the queue of the    *)
(* logger on its own: `written` records the calls of fs.appendFile, which  *)
(* are taken to succeed; the content of the log file is not modelled.      *)
(***************************************************************************)
EXTENDS Integers, Sequences, FiniteSets, TLC

\* Bounds of the model.
MaxClients  == 2    \* Client objects alive, or with an open response, at a time
MaxTimers   == 3    \* pending setTimeout callbacks
MaxQrAwait  == 1    \* qr handlers of one client suspended at qrcode.toDataURL
MaxDeleting == 1    \* DELETE requests suspended at client.destroy()
MaxRetriesArg == 5  \* largest maxRetries fetchRegisteredPhones is called with
MaxListed   == 2    \* phones in the list the backend returns
MaxMsgs     == 2    \* message events emitted in one run
MaxLogs     == 5    \* calls of log() in one run

None == 0
ClientIds == 1 .. MaxClients

\* A sample of the characters /[a-zA-Z0-9_-]/ keeps, and one it removes.
SafeChars == {"1", "a", "_", "-"}
NoPhone == << >>
Phones == { <<"1">>, <<"+", "1">> }
\* The phoneNumber values of the backend's RegisteredPhones list.
BackendPhones == { <<"1">>, <<"+", "1">>, <<"2">> }

\* phoneNumber.replace(/[^a-zA-Z0-9_-]/g, '')
Clean(phoneNumber) == SelectSeq(phoneNumber, LAMBDA ch : ch \in SafeChars)

\* Every string that is used as a key of `clients` or `qrTimers`.
Keys == Phones \cup BackendPhones \cup { Clean(p) : p \in Phones \cup BackendPhones }

\* A getSessionPath that forgets to sanitize the phone.
getSessionPath_Raw(phoneNumber) == phoneNumber

\* path.join(AUTH_DIR, `session-${cleaned}`): one directory per cleaned id.
getSessionPath(phoneNumber) == Clean(phoneNumber)
\* path.join(CACHE_DIR, `cache-${cleaned}`)
getCachePath(phoneNumber) == Clean(phoneNumber)

VARIABLES
    caller,     \* the phone the backend's requests of this run name
    setsAuthInfo, \* whether this build of the library sets client.authInfo
    clients,    \* Map phone -> Client (None: no entry)
    qrTimers,   \* Map phone -> the Client whose QR timeout handle is stored
    timers,     \* pending setTimeout callbacks, oldest first
    obj,        \* the Client objects and the response object each closes over
    authDirs,   \* existing .wwebjs_auth/session-<id> directories
    cacheDirs,  \* existing .wwebjs_cache/cache-<id> directories
    deleting,   \* Clients of DELETE requests suspended at `await client.destroy()`
    fetcher,    \* the call of fetchRegisteredPhones
    boot,       \* the call of initializeRegisteredSessions
    inbox,      \* the calls of handleMessageEvent, in the order of emission
    webhook,    \* the POSTs issued to /whatsappwebhook, in the order of issue
    files,      \* the media files written (by the message they belong to)
    logQueue,   \* Logger.logQueue: the entries pushed and not yet shifted
    isProcessing, \* Logger.isProcessing
    writing,    \* the entries whose logToFile a drain loop is awaiting
    written,    \* the entries appended to the log file, in the order of appending
    logged      \* the number of calls of log() so far

sessionVars == << caller, setsAuthInfo, clients, qrTimers, timers, obj, authDirs,
                  cacheDirs, deleting >>
msgVars == << inbox, webhook, files >>
logVars == << logQueue, isProcessing, writing, written, logged >>
vars == << sessionVars, fetcher, boot, msgVars, logVars >>

----------------------------------------------------------------------------
\* Client objects.
\*   res : the response object the handlers of the client were given:
\*         "express" the response of the register request (createSession),
\*         "stub"    { headersSent: true } of the timer callbacks
\*                   (createSession),
\*         "default" the default parameter { headersSent: false }
\*                   (initializeClient: no qr handler).
\*   answer: what was written to the Express response, "none" while open.
\*   lib : where the library is: "init", "qr", "authed", "ready", and the
\*         ends "failed" (auth_failure emitted), "closed" (disconnected
\*         emitted), "rejected" (initialize() rejected), "destroyed".

Blank == [ used |-> FALSE, phone |-> NoPhone, res |-> "none", answer |-> "none",
           authInfo |-> FALSE, lib |-> "none", qrAwait |-> 0,
           readyAwait |-> FALSE ]

NewClient(phoneNumber, res) ==
    [ used |-> TRUE, phone |-> phoneNumber, res |-> res, answer |-> "none",
      authInfo |-> FALSE, lib |-> "init", qrAwait |-> 0, readyAwait |-> FALSE ]

Live == {"init", "qr", "authed", "ready"}

\* res.headersSent
headersSent(o) ==
    CASE o.res = "express" -> o.answer # "none"
      [] o.res = "stub"    -> TRUE
      [] OTHER             -> FALSE

QrTimer(phoneNumber, c)  == [ kind |-> "qr", phone |-> phoneNumber, client |-> c ]
CreateTimer(phoneNumber) == [ kind |-> "create", phone |-> phoneNumber, client |-> None ]
InitTimer(phoneNumber)   == [ kind |-> "init", phone |-> phoneNumber, client |-> None ]

\* A Client object nothing refers to any more and that emits nothing more
\* is garbage; its slot is given back.  The response of a register request
\* that nothing was written to stays open, and its object stays.
Garbage(c, o, cl, qt, tm, dl) ==
    /\ o[c].used
    /\ o[c].lib \notin Live
    /\ o[c].qrAwait = 0
    /\ ~o[c].readyAwait
    /\ \A k \in Keys : cl[k] # c /\ qt[k] # c
    /\ \A i \in 1 .. Len(tm) : tm[i].client # c
    /\ c \notin dl
    /\ c # boot.cur
    /\ ~(o[c].res = "express" /\ o[c].answer = "none")

Collect(o, cl, qt, tm, dl) ==
    [ c \in ClientIds |-> IF Garbage(c, o, cl, qt, tm, dl) THEN Blank ELSE o[c] ]

FreeSlots == { c \in ClientIds : ~obj[c].used }
NewId == CHOOSE c \in FreeSlots : \A d \in FreeSlots : c <= d

\* clearQrTimer: clearTimeout on the stored handle, then drop the entry.
ClearedTimers(tm, qt, phoneNumber) ==
    IF qt[phoneNumber] # None
    THEN SelectSeq(tm, LAMBDA t : ~(t.kind = "qr" /\ t.client = qt[phoneNumber]))
    ELSE tm
ClearedHandles(qt, phoneNumber) == [ qt EXCEPT ![phoneNumber] = None ]

\* fetchRegisteredPhones is not running.
\*   body: the parsed response body (`data`), site: the return statement taken.
NoBody == [ kind |-> "none", list |-> << >> ]
FetcherIdle ==
    [ pc |-> "idle", maxRetries |-> 0, attempt |-> 0, fetches |-> 0,
      failures |-> 0, delays |-> 0, body |-> NoBody, site |-> "none",
      result |-> << >> ]

\* initializeRegisteredSessions has returned.
\*   list: the phones the loop has not visited yet, cur: the Client whose
\*   initialize() the loop awaits.
BootDone == [ pc |-> "done", list |-> << >>, cur |-> None ]

\* No message event has been emitted.
NoMessage ==
    [ pc |-> "none", owner |-> NoPhone, type |-> "none", text |-> "none",
      media |-> FALSE ]
MsgIds == 1 .. MaxMsgs

NoSessions ==
    /\ clients = [ k \in Keys |-> None ]
    /\ qrTimers = [ k \in Keys |-> None ]
    /\ timers = << >>
    /\ obj = [ c \in ClientIds |-> Blank ]
    /\ deleting = {}

\* The log levels an entry is sampled from (the level is part of the line).
LogLevels == { "INFO", "WARNING", "ERROR" }
Entries == [ n : 1..MaxLogs, level : LogLevels ]
FirstEntry == [ n |-> 1, level |-> "INFO" ]

\* The logger once the line of its constructor has reached the file.
LoggerQuiet ==
    /\ logQueue = << >>
    /\ isProcessing = FALSE
    /\ writing = {}
    /\ written = << FirstEntry >>
    /\ logged = 1

NoMessages ==
    /\ inbox = [ i \in MsgIds |-> NoMessage ]
    /\ webhook = << >>
    /\ files = {}

\* The server after a bootstrap that found no phone to resume.
Init ==
    /\ caller \in Phones
    /\ setsAuthInfo \in BOOLEAN
    /\ NoSessions
    /\ authDirs = {}
    /\ cacheDirs = {}
    /\ fetcher = FetcherIdle
    /\ boot = BootDone
    /\ NoMessages
    /\ LoggerQuiet

----------------------------------------------------------------------------
\* createSession(phoneNumber, lineId, res): a new Client is put into the
\* registry under the raw phone, whatever the registry held before.
createSession(phoneNumber, res) ==
    /\ FreeSlots # {}
    /\ clients' = [ clients EXCEPT ![phoneNumber] = NewId ]
    /\ obj' = Collect([ obj EXCEPT ![NewId] = NewClient(phoneNumber, res) ],
                      clients', qrTimers', timers', deleting')

\* A register handler that does not look into the registry.
RegisterAnswer_NoRegistryCheck(phone) ==
    IF phone = NoPhone THEN "400"
    ELSE IF getSessionPath(phone) \in authDirs THEN "connected"
    ELSE "pending"

\* What app.post('/registerwhatsapp') does with the body's phone: "pending"
\* stands for the call of createSession, which leaves the response open.
RegisterAnswer(phone) ==
    IF phone = NoPhone THEN "400"
    ELSE IF clients[phone] # None \/ getSessionPath(phone) \in authDirs
    THEN "connected"
    ELSE "pending"

\* app.post('/registerwhatsapp')
RegisterWhatsapp(phone) ==
    /\ UNCHANGED << fetcher, boot, msgVars, logVars, caller, setsAuthInfo, qrTimers, timers, authDirs, cacheDirs, deleting >>
    /\ IF RegisterAnswer(phone) = "pending"
       THEN createSession(phone, "express")
       ELSE UNCHANGED << clients, obj >>

----------------------------------------------------------------------------
\* Events of the library's Client, and the handlers index.js attached.

\* res.json(...) inside a handler: it writes the response when res is the
\* Express response and nothing was sent yet; on an Express response already
\* sent and on the stub object (which has no json) it throws.
ResJsonWorks(c) == obj[c].res = "express" /\ ~headersSent(obj[c])

\* client emits 'qr': handleQrEvent starts and suspends at qrcode.toDataURL.
\* Only createSession attaches a qr handler.
QrEvent(c) ==
    /\ obj[c].used /\ obj[c].res \in {"express", "stub"}
    /\ obj[c].lib \in {"init", "qr"}
    /\ obj[c].qrAwait < MaxQrAwait
    /\ obj' = [ obj EXCEPT ![c].lib = "qr", ![c].qrAwait = @ + 1 ]
    /\ UNCHANGED << fetcher, boot, msgVars, logVars, caller, setsAuthInfo, clients, qrTimers, timers, authDirs, cacheDirs, deleting >>

\* handleQrEvent after the await: res.json, then the 30 s QR timer is armed
\* and its handle stored under the phone; a throw of res.json skips both.
QrDone(c) ==
    /\ obj[c].used /\ obj[c].qrAwait > 0
    /\ UNCHANGED << fetcher, boot, msgVars, logVars, caller, setsAuthInfo, clients, authDirs, cacheDirs, deleting >>
    /\ IF ResJsonWorks(c)
       THEN /\ Len(timers) < MaxTimers
            /\ timers' = Append(timers, QrTimer(obj[c].phone, c))
            /\ qrTimers' = [ qrTimers EXCEPT ![obj[c].phone] = c ]
            /\ obj' = [ obj EXCEPT ![c].answer = "qr", ![c].qrAwait = @ - 1 ]
       ELSE /\ UNCHANGED << timers, qrTimers >>
            /\ obj' = Collect([ obj EXCEPT ![c].qrAwait = @ - 1 ],
                              clients, qrTimers, timers, deleting)

\* The user can authenticate a client that restores stored credentials
\* (no qr is emitted) or one whose QR image reached them: the image leaves
\* the process only in the body of the register response.
CanAuthenticate(c) ==
    \/ obj[c].lib = "init" /\ Clean(obj[c].phone) \in authDirs
    \/ obj[c].lib = "qr" /\ obj[c].answer = "qr"

\* client emits 'authenticated': handleAuthenticatedEvent(phoneNumber).
\* index.js reads client.authInfo and never writes it; whether the library
\* sets it on authentication is a property of the installed build.
Authenticated(c) ==
    /\ obj[c].used /\ CanAuthenticate(c)
    /\ timers' = ClearedTimers(timers, qrTimers, obj[c].phone)
    /\ qrTimers' = ClearedHandles(qrTimers, obj[c].phone)
    /\ obj' = Collect([ obj EXCEPT ![c].lib = "authed", ![c].authInfo = setsAuthInfo ],
                      clients, qrTimers', timers', deleting)
    /\ UNCHANGED << fetcher, boot, msgVars, logVars, caller, setsAuthInfo, clients, authDirs, cacheDirs, deleting >>

\* client emits 'ready': handleReadyEvent(cleanedClientId, lineId, res) up
\* to `await fetch(notifyUrl)`.
Ready(c) ==
    /\ obj[c].used /\ obj[c].lib = "authed"
    /\ timers' = ClearedTimers(timers, qrTimers, Clean(obj[c].phone))
    /\ qrTimers' = ClearedHandles(qrTimers, Clean(obj[c].phone))
    /\ obj' = Collect([ obj EXCEPT ![c].lib = "ready", ![c].readyAwait = TRUE ],
                      clients, qrTimers', timers', deleting)
    /\ UNCHANGED << fetcher, boot, msgVars, logVars, caller, setsAuthInfo, clients, authDirs, cacheDirs, deleting >>

\* handleReadyEvent after the await: the success response when the response
\* is still open, then clearQrTimer again; a failed fetch skips both.
ReadyDone(c, fetched) ==
    /\ obj[c].used /\ obj[c].readyAwait
    /\ UNCHANGED << fetcher, boot, msgVars, logVars, caller, setsAuthInfo, clients, authDirs, cacheDirs, deleting >>
    /\ IF fetched
       THEN /\ timers' = ClearedTimers(timers, qrTimers, Clean(obj[c].phone))
            /\ qrTimers' = ClearedHandles(qrTimers, Clean(obj[c].phone))
            /\ obj' = Collect([ obj EXCEPT ![c].readyAwait = FALSE,
                                   ![c].answer = IF ResJsonWorks(c) THEN "success" ELSE @ ],
                              clients, qrTimers', timers', deleting)
       ELSE /\ UNCHANGED << timers, qrTimers >>
            /\ obj' = Collect([ obj EXCEPT ![c].readyAwait = FALSE ],
                              clients, qrTimers, timers, deleting)

\* client emits 'auth_failure': handleAuthFailureEvent(phoneNumber, res).
\* With the default res, { headersSent: false }, res.status is no function:
\* the handler throws before it touches the registry.
AuthFailure(c) ==
    /\ obj[c].used /\ obj[c].lib \in {"init", "qr"}
    /\ UNCHANGED << fetcher, boot, msgVars, logVars, caller, setsAuthInfo, authDirs, cacheDirs, deleting >>
    /\ IF obj[c].res = "default"
       THEN /\ UNCHANGED << clients, qrTimers, timers >>
            /\ obj' = Collect([ obj EXCEPT ![c].lib = "failed" ],
                              clients, qrTimers, timers, deleting)
       ELSE /\ Len(ClearedTimers(timers, qrTimers, obj[c].phone)) < MaxTimers
            /\ clients' = [ clients EXCEPT ![obj[c].phone] = None ]
            /\ timers' = Append(ClearedTimers(timers, qrTimers, obj[c].phone),
                                CreateTimer(obj[c].phone))
            /\ qrTimers' = ClearedHandles(qrTimers, obj[c].phone)
            /\ obj' = Collect([ obj EXCEPT ![c].lib = "failed",
                                   ![c].answer = IF headersSent(obj[c]) THEN @ ELSE "401" ],
                              clients', qrTimers', timers', deleting)

\* client emits 'disconnected': handleDisconnectedEvent(phoneNumber).
Disconnected(c) ==
    /\ obj[c].used /\ obj[c].lib \in Live
    /\ Len(ClearedTimers(timers, qrTimers, obj[c].phone)) < MaxTimers
    /\ clients' = [ clients EXCEPT ![obj[c].phone] = None ]
    /\ timers' = Append(ClearedTimers(timers, qrTimers, obj[c].phone),
                        InitTimer(obj[c].phone))
    /\ qrTimers' = ClearedHandles(qrTimers, obj[c].phone)
    /\ obj' = Collect([ obj EXCEPT ![c].lib = "closed" ],
                      clients', qrTimers', timers', deleting)
    /\ UNCHANGED << fetcher, boot, msgVars, logVars, caller, setsAuthInfo, authDirs, cacheDirs, deleting >>

\* client.initialize() rejects (before the client emitted anything): the
\* .catch of createSession or of initializeClient.
InitReject(c) ==
    /\ obj[c].used /\ obj[c].lib = "init"
    /\ Len(timers) < MaxTimers
    /\ clients' = [ clients EXCEPT ![obj[c].phone] = None ]
    /\ timers' = Append(timers, IF obj[c].res = "default"
                                THEN InitTimer(obj[c].phone)
                                ELSE CreateTimer(obj[c].phone))
    /\ obj' = Collect([ obj EXCEPT ![c].lib = "rejected" ],
                      clients', qrTimers, timers', deleting)
    /\ UNCHANGED << fetcher, boot, msgVars, logVars, caller, setsAuthInfo, qrTimers, authDirs, cacheDirs, deleting >>

\* LocalAuth and the browser of a running client write the session and the
\* cache directory of its clientId, the cleaned phone.
PersistDirs(c) ==
    /\ obj[c].used /\ obj[c].lib \in Live
    /\ Clean(obj[c].phone) \notin authDirs
    /\ authDirs' = authDirs \cup { Clean(obj[c].phone) }
    /\ cacheDirs' = cacheDirs \cup { Clean(obj[c].phone) }
    /\ UNCHANGED << fetcher, boot, msgVars, logVars, caller, setsAuthInfo, clients, qrTimers, timers, obj, deleting >>

----------------------------------------------------------------------------
\* Timer callbacks.

\* function initializeClient(phoneNumber, lineId)
initializeClient(phoneNumber) ==
    IF getSessionPath(Clean(phoneNumber)) \in authDirs
    THEN /\ FreeSlots # {}
         /\ clients' = [ clients EXCEPT ![phoneNumber] = NewId ]
         /\ obj' = Collect([ obj EXCEPT ![NewId] = NewClient(phoneNumber, "default") ],
                           clients', qrTimers', timers', deleting')
    ELSE /\ UNCHANGED clients
         /\ obj' = Collect(obj, clients, qrTimers', timers', deleting')

\* The QR timeout armed by handleQrEvent, closing over its own client.
QrTimeout(t) ==
    /\ UNCHANGED << fetcher, boot, msgVars, logVars, caller, setsAuthInfo, authDirs, cacheDirs, deleting >>
    /\ IF ~obj[t.client].authInfo
       THEN /\ clients' = [ clients EXCEPT ![t.phone] = None ]
            /\ timers' = Append(ClearedTimers(Tail(timers), qrTimers, t.phone),
                                CreateTimer(t.phone))
            /\ qrTimers' = ClearedHandles(qrTimers, t.phone)
            /\ obj' = Collect([ obj EXCEPT ![t.client].lib = "destroyed" ],
                              clients', qrTimers', timers', deleting)
       ELSE /\ timers' = Tail(timers)
            /\ UNCHANGED << clients, qrTimers >>
            /\ obj' = Collect(obj, clients, qrTimers, timers', deleting)

\* The oldest pending timer expires.
TimerFire ==
    /\ timers # << >>
    /\ LET t == Head(timers) IN
       CASE t.kind = "qr" -> QrTimeout(t)
         [] t.kind = "create" ->
               /\ timers' = Tail(timers)
               /\ UNCHANGED << fetcher, boot, msgVars, logVars, caller, setsAuthInfo, qrTimers, authDirs, cacheDirs, deleting >>
               /\ createSession(t.phone, "stub")
         [] t.kind = "init" ->
               /\ timers' = Tail(timers)
               /\ UNCHANGED << fetcher, boot, msgVars, logVars, caller, setsAuthInfo, qrTimers, authDirs, cacheDirs, deleting >>
               /\ initializeClient(t.phone)

----------------------------------------------------------------------------
\* The remaining HTTP handlers.

\* A /sendmsg handler that validates the content before it looks up the
\* session.
SendAnswer_ContentFirst(from, body, sendOk) ==
    IF body \in {"missing", "nofile", "unsupported"} THEN "400"
    ELSE IF clients[from] = None THEN "404"
    ELSE IF sendOk THEN "sent" ELSE "500"

\* What app.post('/sendmsg') answers; body says which fields the request
\* carries: "missing" (a required field absent), "text", "file" (filePath
\* exists), "nofile" (filePath does not exist), "unsupported" (no filePath).
SendAnswer(from, body, sendOk) ==
    IF body = "missing" THEN "400"
    ELSE IF clients[from] = None THEN "404"
    ELSE IF body \in {"nofile", "unsupported"} THEN "400"
    ELSE IF sendOk THEN "sent" ELSE "500"

\* A /sendmsg handler that schedules the re-creation before it validates
\* the request.
SendMsg_ScheduleFirst(from, body, sendOk) ==
    /\ UNCHANGED << fetcher, boot, msgVars, logVars, caller, setsAuthInfo, clients, qrTimers, obj, authDirs, cacheDirs, deleting >>
    /\ IF clients[from] = None
       THEN /\ Len(timers) < MaxTimers
            /\ timers' = Append(timers, CreateTimer(from))
       ELSE UNCHANGED timers

\* app.post('/sendmsg')
SendMsg(from, body, sendOk) ==
    /\ UNCHANGED << fetcher, boot, msgVars, logVars, caller, setsAuthInfo, clients, qrTimers, obj, authDirs, cacheDirs, deleting >>
    /\ IF SendAnswer(from, body, sendOk) = "404"
       THEN /\ Len(timers) < MaxTimers
            /\ timers' = Append(timers, CreateTimer(from))
       ELSE UNCHANGED timers

\* What app.get('/status/:phone') answers.
StatusAnswer(phone) ==
    IF clients[Clean(phone)] # None /\ obj[clients[Clean(phone)]].authInfo
    THEN "connected" ELSE "disconnected"

\* app.get('/status/:phone')
Status(phone) ==
    /\ UNCHANGED << fetcher, boot, msgVars, logVars, caller, setsAuthInfo, clients, qrTimers, timers, obj, authDirs, cacheDirs,
                    deleting >>

\* app.delete('/sessiondelete/:phone') from its start: with a client in the
\* registry it suspends at `await client.destroy()`, without one it runs to
\* the response.  `deleting` is a set: a DELETE that finds the client of a
\* suspended DELETE resumes together with it.
SessionDelete(phone) ==
    LET ph == Clean(phone) IN
    /\ UNCHANGED << fetcher, boot, msgVars, logVars, caller, setsAuthInfo, clients, qrTimers, timers >>
    /\ IF clients[ph] # None
       THEN /\ Cardinality(deleting \cup {clients[ph]}) <= MaxDeleting
            /\ deleting' = deleting \cup { clients[ph] }
            /\ obj' = [ obj EXCEPT ![clients[ph]].lib = "destroyed" ]
            /\ UNCHANGED << authDirs, cacheDirs >>
       ELSE /\ authDirs' = authDirs \ { getSessionPath(ph) }
            /\ cacheDirs' = cacheDirs \ { getCachePath(ph) }
            /\ UNCHANGED << obj, deleting >>

\* ... and after the await: registry entry and QR timer of the phone go,
\* then the directories, then the response.
SessionDeleteDone(c) ==
    LET ph == Clean(obj[c].phone) IN
    /\ c \in deleting
    /\ deleting' = deleting \ {c}
    /\ clients' = [ clients EXCEPT ![ph] = None ]
    /\ timers' = ClearedTimers(timers, qrTimers, ph)
    /\ qrTimers' = ClearedHandles(qrTimers, ph)
    /\ authDirs' = authDirs \ { getSessionPath(ph) }
    /\ cacheDirs' = cacheDirs \ { getCachePath(ph) }
    /\ obj' = Collect(obj, clients', qrTimers', timers', deleting')
    /\ UNCHANGED << fetcher, boot, msgVars, logVars, caller, setsAuthInfo >>

SendBodies == {"missing", "text", "file", "nofile", "unsupported"}

Next ==
    \/ \E phone \in {caller, NoPhone} : RegisterWhatsapp(phone)
    \/ \E body \in SendBodies, sendOk \in BOOLEAN : SendMsg(caller, body, sendOk)
    \/ \E phone \in Phones : Status(phone)
    \/ \E phone \in Phones : SessionDelete(phone)
    \/ \E c \in ClientIds : SessionDeleteDone(c)
    \/ TimerFire
    \/ \E c \in ClientIds : QrEvent(c)
    \/ \E c \in ClientIds : QrDone(c)
    \/ \E c \in ClientIds : Authenticated(c)
    \/ \E c \in ClientIds : Ready(c)
    \/ \E c \in ClientIds, fetched \in BOOLEAN : ReadyDone(c, fetched)
    \/ \E c \in ClientIds : AuthFailure(c)
    \/ \E c \in ClientIds : Disconnected(c)
    \/ \E c \in ClientIds : InitReject(c)
    \/ \E c \in ClientIds : PersistDirs(c)

Spec == Init /\ [][Next]_vars

\* The same server in a run in which nobody calls DELETE /sessiondelete.
NextNoDelete ==
    \/ \E phone \in {caller, NoPhone} : RegisterWhatsapp(phone)
    \/ \E body \in SendBodies, sendOk \in BOOLEAN : SendMsg(caller, body, sendOk)
    \/ \E phone \in Phones : Status(phone)
    \/ TimerFire
    \/ \E c \in ClientIds : QrEvent(c)
    \/ \E c \in ClientIds : QrDone(c)
    \/ \E c \in ClientIds : Authenticated(c)
    \/ \E c \in ClientIds : Ready(c)
    \/ \E c \in ClientIds, fetched \in BOOLEAN : ReadyDone(c, fetched)
    \/ \E c \in ClientIds : AuthFailure(c)
    \/ \E c \in ClientIds : Disconnected(c)
    \/ \E c \in ClientIds : InitReject(c)
    \/ \E c \in ClientIds : PersistDirs(c)

SpecNoDelete == Init /\ [][NextNoDelete]_vars
----------------------------------------------------------------------------
\* fetchRegisteredPhones(maxRetries, retryDelay).  The state of a call is its
\* position (pc), the loop variable `attempt`, and counters of what it has
\* done: fetch calls issued, attempts that ended in the catch block, delays
\* started.  Every delay lasts retryDelay.

SeqsUpTo(S, n) == UNION { [ 1 .. k -> S ] : k \in 0 .. n }

\* The lists of phones the backend may return.
PhoneLists ==
    { l \in SeqsUpTo(BackendPhones, MaxListed) :
         \A i, j \in 1 .. Len(l) : i # j => l[i] # l[j] }

\* What response.json() yields: it rejects ("invalid"), or gives a value
\* that is no array ("object"), or an array.
Bodies ==
    { [ kind |-> "invalid", list |-> << >> ], [ kind |-> "object", list |-> << >> ] }
      \cup { [ kind |-> "array", list |-> l ] : l \in PhoneLists }

\* return
Returned(f, site, list) ==
    [ f EXCEPT !.pc = "returned", !.site = site, !.result = list ]

\* The loop head with attempt = n, and the fetch of the loop body.
Attempt(f, n) ==
    IF n <= f.maxRetries
    THEN [ f EXCEPT !.pc = "fetch", !.attempt = n, !.fetches = @ + 1 ]
    ELSE Returned([ f EXCEPT !.attempt = n ], "fallthrough", << >>)

\* A catch block that never gives up.
Caught_NoLastAttempt(f) ==
    [ f EXCEPT !.pc = "delay", !.failures = @ + 1, !.delays = @ + 1 ]

\* The catch block: the last attempt returns [], any other starts the delay.
Caught(f) ==
    IF f.attempt = f.maxRetries
    THEN Returned([ f EXCEPT !.failures = @ + 1 ], "exhausted", << >>)
    ELSE [ f EXCEPT !.pc = "delay", !.failures = @ + 1, !.delays = @ + 1 ]

\* The call runs up to its first await.
FetchStart ==
    /\ fetcher.pc = "called"
    /\ fetcher' = Attempt(fetcher, 1)
    /\ UNCHANGED << sessionVars, boot, msgVars, logVars >>

\* `await fetch(...)` settles: a network error, a status that is not ok,
\* 204, or a response whose body is read next.
Responses == {"error", "notok", "204", "ok"}

FetchResponse(r) ==
    /\ fetcher.pc = "fetch"
    /\ fetcher' = IF r = "ok" THEN [ fetcher EXCEPT !.pc = "json" ]
                  ELSE Caught(fetcher)
    /\ UNCHANGED << sessionVars, boot, msgVars, logVars >>

\* `await response.json()` settles.
FetchJson(data) ==
    /\ fetcher.pc = "json"
    /\ fetcher' =
         LET f == [ fetcher EXCEPT !.body = data ] IN
         CASE data.kind = "invalid" -> Caught(fetcher)
           [] data.kind = "object" \/ Len(data.list) = 0 -> Returned(f, "empty", << >>)
           [] OTHER -> Returned(f, "data", data.list)
    /\ UNCHANGED << sessionVars, boot, msgVars, logVars >>

\* `await delay(retryDelay)` is over: attempt++ and the loop head.
DelayDone ==
    /\ fetcher.pc = "delay"
    /\ fetcher' = Attempt(fetcher, fetcher.attempt + 1)
    /\ UNCHANGED << sessionVars, boot, msgVars, logVars >>

\* One call, with any positive maxRetries up to the bound (the only call of
\* index.js takes the default).
InitFetch ==
    /\ caller = NoPhone
    /\ setsAuthInfo = FALSE
    /\ NoSessions
    /\ authDirs = {}
    /\ cacheDirs = {}
    /\ \E m \in 1 .. MaxRetriesArg :
          fetcher = [ FetcherIdle EXCEPT !.pc = "called", !.maxRetries = m ]
    /\ boot = BootDone
    /\ NoMessages
    /\ LoggerQuiet

NextFetch ==
    \/ FetchStart
    \/ \E r \in Responses : FetchResponse(r)
    \/ \E data \in Bodies : FetchJson(data)
    \/ DelayDone

\* The network answers or fails every request, and timers expire.
SpecFetch == InitFetch /\ [][NextFetch]_vars /\ WF_vars(NextFetch)
----------------------------------------------------------------------------
\* initializeRegisteredSessions(): the loop over the fetched list.  The loop
\* awaits client.initialize() inside its body, so the call is suspended
\* either at `await fetchRegisteredPhones()` or at the initialize() of the
\* client boot.cur.

\* A bootstrap that resumes every listed phone.
HasSavedSession_Always(phoneNumber) == TRUE

\* fs.existsSync(getSessionPath(cleanedClientId))
HasSavedSession(phoneNumber) == getSessionPath(Clean(phoneNumber)) \in authDirs

\* The index of the first phone of the list that has a credential
\* directory, Len(list) + 1 if none has: the loop passes over the phones
\* before it without an await.
FirstSaved(list) ==
    CHOOSE i \in 1 .. Len(list) + 1 :
        /\ i <= Len(list) => HasSavedSession(list[i])
        /\ \A j \in 1 .. i - 1 : ~HasSavedSession(list[j])

\* The loop from its head, with `list` still to visit, up to its next
\* await or its end; o, cl, tm are the objects, the registry and the timers
\* as the code before the loop head left them.
BootLoop(list, o, cl, tm) ==
    LET i == FirstSaved(list) IN
    IF i > Len(list)
    THEN /\ clients' = cl
         /\ boot' = BootDone
         /\ obj' = Collect(o, cl, qrTimers, tm, deleting)
    ELSE /\ FreeSlots # {}
         /\ clients' = [ cl EXCEPT ![list[i]] = NewId ]
         /\ boot' = [ pc |-> "await", list |-> SubSeq(list, i + 1, Len(list)),
                      cur |-> NewId ]
         /\ obj' = Collect([ o EXCEPT ![NewId] = NewClient(list[i], "default") ],
                           clients', qrTimers, tm, deleting)

\* `await fetchRegisteredPhones()` has settled with boot.list.
BootStart ==
    /\ boot.pc = "fetched"
    /\ BootLoop(boot.list, obj, clients, timers)
    /\ UNCHANGED << fetcher, msgVars, logVars, caller, setsAuthInfo, qrTimers, timers,
                    authDirs, cacheDirs, deleting >>

\* `await client.initialize()` of the loop resolves.
BootInitResolved ==
    /\ boot.pc = "await"
    /\ BootLoop(boot.list, obj, clients, timers)
    /\ UNCHANGED << fetcher, msgVars, logVars, caller, setsAuthInfo, qrTimers, timers,
                    authDirs, cacheDirs, deleting >>

\* `await client.initialize()` of the loop rejects: the catch block of the
\* loop, then the loop goes on.
BootInitRejected ==
    /\ boot.pc = "await" /\ obj[boot.cur].lib = "init"
    /\ Len(timers) < MaxTimers
    /\ timers' = Append(timers, InitTimer(obj[boot.cur].phone))
    /\ BootLoop(boot.list, [ obj EXCEPT ![boot.cur].lib = "rejected" ],
                [ clients EXCEPT ![obj[boot.cur].phone] = None ], timers')
    /\ UNCHANGED << fetcher, msgVars, logVars, caller, setsAuthInfo, qrTimers,
                    authDirs, cacheDirs, deleting >>

\* The server starts with some credential directories on disk, and the
\* backend has returned a list.
InitBoot ==
    /\ caller = NoPhone
    /\ setsAuthInfo \in BOOLEAN
    /\ NoSessions
    /\ authDirs \in SUBSET { Clean(p) : p \in BackendPhones }
    /\ cacheDirs = authDirs
    /\ fetcher = FetcherIdle
    /\ \E l \in PhoneLists : boot = [ pc |-> "fetched", list |-> l, cur |-> None ]
    /\ NoMessages
    /\ LoggerQuiet

\* The bootstrap and the sessions it resumes, while no HTTP request arrives.
NextBoot ==
    \/ BootStart
    \/ BootInitResolved
    \/ BootInitRejected
    \/ TimerFire
    \/ \E c \in ClientIds : Authenticated(c)
    \/ \E c \in ClientIds : Ready(c)
    \/ \E c \in ClientIds, fetched \in BOOLEAN : ReadyDone(c, fetched)
    \/ \E c \in ClientIds : AuthFailure(c)
    \/ \E c \in ClientIds : Disconnected(c)
    \/ \E c \in ClientIds \ {boot.cur} : InitReject(c)

\* The event loop runs the continuation of a settled await; nothing makes
\* the library settle initialize() or emit an event.
SpecBoot == InitBoot /\ [][NextBoot]_vars /\ WF_vars(BootStart)
----------------------------------------------------------------------------
\* handleMessageEvent(message, phoneNumber).  A chat address is a string
\* that ends in its server part; the server parts are single symbols here.

CUs == << "@c.us" >>
Addr(user, server) == user \o << server >>

\* s.endsWith(suffix)
EndsWith(s, suffix) ==
    /\ Len(s) >= Len(suffix)
    /\ SubSeq(s, Len(s) - Len(suffix) + 1, Len(s)) = suffix

\* The message events of a run: sender, addressee, type, and whether
\* message.body is a non-empty string.
Froms == { Addr(<<"1">>, "@c.us"), Addr(<<"+", "1">>, "@c.us"), Addr(<<"2">>, "@c.us"),
           Addr(<<"2">>, "@g.us"), Addr(<< >>, "@c.us"), << >> }
Tos == { Addr(<<"1">>, "@c.us"), Addr(<<"1">>, "@g.us") }
MediaTypes == {"image", "video", "audio", "document", "sticker"}
TextTypes == {"chat", "text"}
MsgTypes == {"chat", "text", "image", "reaction", "location"}
Events == [ from : Froms, to : Tos, type : MsgTypes, body : BOOLEAN ]

\* A filter that lets the session's own messages through.
Dropped_NoSelfCheck(message, phoneNumber) ==
    \/ ~EndsWith(message.from, CUs)
    \/ ~EndsWith(message.to, CUs)

\* The two early returns of handleMessageEvent.
Dropped(message, phoneNumber) ==
    \/ ~EndsWith(message.from, CUs)
    \/ ~EndsWith(message.to, CUs)
    \/ message.from = phoneNumber \o CUs

\* The size limit of stored media, in MB of 1024 * 1024 bytes.
MaxFileMB == 16
BytesPerMB == 1024 * 1024

\* A size check that also refuses a file of exactly the limit.
TooLarge_AtLimit(fileSizeInBytes) == fileSizeInBytes >= MaxFileMB * BytesPerMB

\* fileSizeInBytes / (1024 * 1024) > 16: the division by a power of two is
\* exact in floating point, so the test is this comparison of integers.
TooLarge(fileSizeInBytes) == fileSizeInBytes > MaxFileMB * BytesPerMB

\* What `await message.downloadMedia()` yields: it rejects, or gives
\* nothing, or a media object whose data has some size.
Sizes == { 0, MaxFileMB * BytesPerMB - 1, MaxFileMB * BytesPerMB,
           MaxFileMB * BytesPerMB + 1 }
Downloads ==
    { [ kind |-> "throws", size |-> 0 ], [ kind |-> "nothing", size |-> 0 ] }
      \cup { [ kind |-> "media", size |-> n ] : n \in Sizes }

\* messageText as the switch sets it before any download.
TextOf(message) ==
    CASE message.type \in TextTypes  -> "body"
      [] message.type \in MediaTypes -> IF message.body THEN "body" ELSE "type"
      [] message.type = "reaction"   -> "reaction"
      [] OTHER                       -> "unknown type"

\* The body of the POST for the call m of event i.  The object literal sets
\* `text: { body: messageText }` and then `[type]: mediaData`: for the type
\* "text" the second key replaces the first, and text is null.
Payload(i, m) ==
    [ msg |-> i, phone |-> m.owner, type |-> m.type,
      text |-> IF m.type = "text" THEN "null" ELSE m.text,
      media |-> m.media ]

\* The event emitted next.
NextMsgId == CHOOSE i \in MsgIds : inbox[i].pc = "none" /\ \A j \in 1 .. i - 1 : inbox[j].pc # "none"

\* The ready client c emits 'message': handleMessageEvent runs up to its
\* return or its first await (downloadMedia, or the fetch of the POST).
Message(c, message) ==
    /\ obj[c].used /\ obj[c].lib = "ready"
    /\ \E i \in MsgIds : inbox[i].pc = "none"
    /\ LET i == NextMsgId
           m == [ NoMessage EXCEPT !.owner = obj[c].phone ]
           a == [ m EXCEPT !.type = message.type, !.text = TextOf(message) ]
       IN  CASE Dropped(message, obj[c].phone) ->
                  /\ inbox' = [ inbox EXCEPT ![i] = [ m EXCEPT !.pc = "dropped" ] ]
                  /\ UNCHANGED << webhook, files >>
             [] ~Dropped(message, obj[c].phone) /\ message.type \in MediaTypes ->
                  /\ inbox' = [ inbox EXCEPT ![i] = [ a EXCEPT !.pc = "download" ] ]
                  /\ UNCHANGED << webhook, files >>
             [] OTHER ->
                  /\ inbox' = [ inbox EXCEPT ![i] = [ a EXCEPT !.pc = "post" ] ]
                  /\ webhook' = Append(webhook, Payload(i, a))
                  /\ UNCHANGED files
    /\ UNCHANGED << logVars, sessionVars, fetcher, boot >>

\* `await message.downloadMedia()` of the call for event i settles: a
\* rejection goes to the outer catch, which logs and returns; otherwise the
\* file is written unless it is too large, and the POST is issued.
Downloaded(i, media) ==
    /\ inbox[i].pc = "download"
    /\ IF media.kind = "throws"
       THEN /\ inbox' = [ inbox EXCEPT ![i].pc = "caught" ]
            /\ UNCHANGED << webhook, files >>
       ELSE LET m == inbox[i]
                a == CASE media.kind = "nothing" -> [ m EXCEPT !.text = "not downloaded" ]
                       [] TooLarge(media.size)   -> [ m EXCEPT !.text = "too large" ]
                       [] OTHER                  -> [ m EXCEPT !.media = TRUE ]
            IN  /\ inbox' = [ inbox EXCEPT ![i] = [ a EXCEPT !.pc = "post" ] ]
                /\ files' = IF a.media THEN files \cup {i} ELSE files
                /\ webhook' = Append(webhook, Payload(i, a))
    /\ UNCHANGED << logVars, sessionVars, fetcher, boot >>

\* `await fetch(.../whatsappwebhook)` of the call for event i settles: a
\* success, a status that is not ok, or a network error; each is logged.
PostResults == {"ok", "notok", "error"}

Posted(i, r) ==
    /\ inbox[i].pc = "post"
    /\ inbox' = [ inbox EXCEPT ![i].pc = "done" ]
    /\ UNCHANGED << logVars, sessionVars, fetcher, boot, webhook, files >>

\* Two sessions made by register requests are ready, one for a phone of
\* safe characters and one for a phone with a '+'.
InitMsg ==
    /\ caller = NoPhone
    /\ setsAuthInfo = TRUE
    /\ clients = [ k \in Keys |-> CASE k = <<"1">> -> 1 [] k = <<"+", "1">> -> 2
                                    [] OTHER -> None ]
    /\ qrTimers = [ k \in Keys |-> None ]
    /\ timers = << >>
    /\ obj = [ c \in ClientIds |->
                 CASE c = 1 -> [ NewClient(<<"1">>, "express") EXCEPT
                                   !.answer = "qr", !.authInfo = TRUE, !.lib = "ready" ]
                   [] c = 2 -> [ NewClient(<<"+", "1">>, "express") EXCEPT
                                   !.answer = "qr", !.authInfo = TRUE, !.lib = "ready" ]
                   [] OTHER -> Blank ]
    /\ deleting = {}
    /\ authDirs = { <<"1">> }
    /\ cacheDirs = { <<"1">> }
    /\ fetcher = FetcherIdle
    /\ boot = BootDone
    /\ NoMessages
    /\ LoggerQuiet

NextMessages ==
    \/ \E c \in ClientIds, message \in Events : Message(c, message)
    \/ \E i \in MsgIds, media \in Downloads : Downloaded(i, media)
    \/ \E i \in MsgIds, r \in PostResults : Posted(i, r)

SpecMsg == InitMsg /\ [][NextMessages]_vars
----------------------------------------------------------------------------
\* The logger (logger.js).

\* processQueue(), called when the queue holds q: a call that finds a drain
\* loop active returns at once; otherwise the call becomes the drain loop,
\* shifts the oldest entry, prints it and is suspended in logToFile.
processQueue_NoGuard(q) ==
    /\ isProcessing' = TRUE
    /\ logQueue' = Tail(q)
    /\ writing' = writing \cup { Head(q) }

processQueue(q) ==
    IF isProcessing
    THEN /\ logQueue' = q
         /\ UNCHANGED << isProcessing, writing >>
    ELSE /\ isProcessing' = TRUE
         /\ logQueue' = Tail(q)
         /\ writing' = writing \cup { Head(q) }

\* log(message, level): the entry is pushed and processQueue() is called.
Log(level) ==
    /\ logged < MaxLogs
    /\ logged' = logged + 1
    /\ processQueue(Append(logQueue, [ n |-> logged + 1, level |-> level ]))
    /\ UNCHANGED << sessionVars, fetcher, boot, msgVars, written >>

\* logToFile(e) returns to the drain loop that awaits it: the line has been
\* appended; the loop shifts the next entry, or finds the queue empty and
\* clears isProcessing.
LogToFileDone(e) ==
    /\ e \in writing
    /\ written' = Append(written, e)
    /\ IF logQueue # << >>
       THEN /\ logQueue' = Tail(logQueue)
            /\ writing' = (writing \ { e }) \cup { Head(logQueue) }
            /\ UNCHANGED isProcessing
       ELSE /\ writing' = writing \ { e }
            /\ isProcessing' = FALSE
            /\ UNCHANGED logQueue
    /\ UNCHANGED << sessionVars, fetcher, boot, msgVars, logged >>

\* The logger after its constructor: processQueue() found the queue empty,
\* then log('Logger initialized') pushed the first entry and started the
\* drain loop, which awaits the first write.
InitLog ==
    /\ caller = NoPhone
    /\ setsAuthInfo = FALSE
    /\ NoSessions
    /\ authDirs = {}
    /\ cacheDirs = {}
    /\ fetcher = FetcherIdle
    /\ boot = BootDone
    /\ NoMessages
    /\ logQueue = << >>
    /\ isProcessing = TRUE
    /\ writing = { FirstEntry }
    /\ written = << >>
    /\ logged = 1

WriteNext == \E e \in Entries : LogToFileDone(e)

NextLog ==
    \/ \E level \in LogLevels : Log(level)
    \/ WriteNext

\* A write that was started completes.
SpecLog == InitLog /\ [][NextLog]_vars /\ WF_vars(WriteNext)
----------------------------------------------------------------------------
\* Vocabulary of the properties.

\* The pending timers of one kind that name a phone.
Pending(tm, kind, phoneNumber) ==
    { i \in 1 .. Len(tm) : tm[i].kind = kind /\ tm[i].phone = phoneNumber }

\* Pending re-creation, retry and reconnect timers that name a phone.
PendingRetries(tm, phoneNumber) ==
    Pending(tm, "create", phoneNumber) \cup Pending(tm, "init", phoneNumber)

\* The QR timeout armed by client c is pending.
QrArmed(tm, c) == \E i \in 1 .. Len(tm) : tm[i].kind = "qr" /\ tm[i].client = c

\* This step made the Client object c for a register request.
Registered(c) == ~obj[c].used /\ obj'[c].used /\ obj'[c].res = "express"

\* The oldest timer is a QR timeout, and it expires in this step.
QrTimeoutFires == timers # << >> /\ Head(timers).kind = "qr" /\ TimerFire

----------------------------------------------------------------------------
\* A register request for a phone that has a registry entry is answered
\* "connected".
AnsweredConnected == \A p \in Phones : clients[p] # None => RegisterAnswer(p) = "connected"

\* C1: register requests for one phone create at most one session: a
\* register request makes a client only when the registry has no entry for
\* the phone, and while the entry is there every register request is
\* answered "connected" and makes no client.
C1_RegisterCreatesOnce ==
    /\ AnsweredConnected
    /\ [][ /\ AnsweredConnected'
           /\ \A c \in ClientIds : Registered(c) => clients[obj'[c].phone] = None
         ]_vars

\* C1: the phone's session was made by a register request, it is still in
\* the registry, and a further register request is answered "connected".
C1_Witness ==
    /\ clients[caller] # None
    /\ obj[clients[caller]].res = "express"
    /\ obj[clients[caller]].answer = "qr"
    /\ RegisterAnswer(caller) = "connected"

\* C2 as claimed: no step replaces the client a phone has in the registry
\* by another client.
C2_NeverReplaced ==
    [][ \A p \in Keys : clients[p] # None /\ clients'[p] # None
                           => clients'[p] = clients[p] ]_vars

\* C3 as claimed: a pairing session that has handled its pairing challenge
\* and is not authenticated has its QR timeout pending (so that it is
\* destroyed and re-created when the 30 s are over).
C3_TimeoutPending ==
    \A c \in ClientIds :
        obj[c].used /\ obj[c].res \in {"express", "stub"}
            /\ obj[c].lib = "qr" /\ obj[c].qrAwait = 0
        => QrArmed(timers, c)

\* C4 as claimed: when a session re-created by a timer has handled its
\* pairing challenge, a new QR timer is armed, which keeps the loop going.
C4_LoopRearms ==
    [][ \A c \in ClientIds :
           obj[c].used /\ obj[c].res = "stub" /\ obj[c].lib = "qr"
              /\ obj[c].qrAwait > 0 /\ QrDone(c)
           => QrArmed(timers', c) ]_vars

\* C5 as claimed: when a DELETE request completes, no timer that names the
\* deleted phone is pending any more.
C5_DeleteCancelsTimers ==
    [][ \A c \in ClientIds :
           c \in deleting /\ SessionDeleteDone(c)
           => \A i \in 1 .. Len(timers') :
                 Clean(timers'[i].phone) # Clean(obj[c].phone) ]_vars

\* C6 as claimed: per phone at most one QR timer and at most one
\* re-creation or reconnect timer are pending, and never both.
C6_TimersExclusive ==
    \A p \in Keys :
        /\ Cardinality(Pending(timers, "qr", p)) <= 1
        /\ Cardinality(PendingRetries(timers, p)) <= 1
        /\ Pending(timers, "qr", p) = {} \/ PendingRetries(timers, p) = {}

\* C7 as claimed: a QR timeout neither destroys a client that was awaiting
\* the scan and has authenticated, nor removes its session.
C7_NoTimeoutAfterAuth ==
    [][ QrTimeoutFires =>
          \A c \in ClientIds :
             obj[c].used /\ obj[c].res = "express"
                /\ obj[c].answer \in {"qr", "success"}
                /\ obj[c].lib \in {"authed", "ready"}
             => /\ obj'[c].lib = obj[c].lib
                /\ clients[obj[c].phone] = c => clients'[obj[c].phone] = c ]_vars

\* C8 as claimed: an auth_failure of any client removes the phone's
\* registry entry, leaves no QR timer of the phone and schedules exactly one
\* re-creation.
C8_AuthFailureRecovers ==
    [][ \A c \in ClientIds :
           obj[c].used /\ AuthFailure(c)
           => /\ clients'[obj[c].phone] = None
              /\ Pending(timers', "qr", obj[c].phone) = {}
              /\ Cardinality(Pending(timers', "create", obj[c].phone))
                    = Cardinality(Pending(timers, "create", obj[c].phone)) + 1 ]_vars

\* C9 as claimed: when the reconnect timer a disconnection scheduled
\* expires, the phone has a session in the registry again.
C9_ReconnectRestores ==
    [][ timers # << >> /\ Head(timers).kind = "init" /\ TimerFire
          => clients'[Head(timers).phone] # None ]_vars

\* C10 as claimed: register answers "connected" only for a phone that has a
\* session in the registry.
C10_ConnectedOnlyIfRegistered ==
    RegisterAnswer(caller) = "connected" => clients[caller] # None

\* Register answers "connected" exactly for the phones that have a registry
\* entry or a credential directory under their sanitized name.
ConnectedIffKnown ==
    \A p \in Phones :
        RegisterAnswer(p) = "connected" <=> (clients[p] # None \/ Clean(p) \in authDirs)

\* C10 amended: register answers "connected" when the phone has a session
\* in the registry or the credential directory of its sanitized phone
\* exists; in every other case it puts a new pairing client, bound to the
\* request's response, into the registry.
C10_ConnectedOrPairing ==
    /\ ConnectedIffKnown
    /\ [][ /\ ConnectedIffKnown'
           /\ \A c \in ClientIds :
                 Registered(c) => clients[obj'[c].phone] = None
                                  /\ Clean(obj'[c].phone) \notin authDirs
           /\ \A p \in Phones :
                 RegisterWhatsapp(p) /\ clients[p] = None /\ Clean(p) \notin authDirs
                 => /\ clients'[p] # None
                    /\ Registered(clients'[p])
                    /\ obj'[clients'[p]].lib = "init"
                    /\ obj'[clients'[p]].phone = p
         ]_vars

\* C10: a register request for a phone that has no session but whose
\* credential directory exists.
C10_Witness ==
    /\ clients[caller] = None
    /\ Clean(caller) \in authDirs
    /\ RegisterAnswer(caller) = "connected"

\* C11 as claimed: once the session a register request made for a phone has
\* answered with its QR code and has authenticated, GET /status/<the same
\* phone> reports "connected" (stated for a library that records the
\* authentication in client.authInfo).
C11_StatusAfterPairing ==
    \A c \in ClientIds :
        /\ setsAuthInfo
        /\ obj[c].used /\ obj[c].res = "express" /\ obj[c].answer = "qr"
        /\ obj[c].lib \in {"authed", "ready"}
        /\ clients[obj[c].phone] = c
        => StatusAnswer(obj[c].phone) = "connected"

\* The DELETE request for phone p runs to its response in this step without
\* suspending: it found no client under the key it looks up.
DeleteAnswers(p) == clients[Clean(p)] = None /\ SessionDelete(p)

\* C12 as claimed: when DELETE /sessiondelete/<phone> has answered, the
\* registry has no session for that phone and the credential and cache
\* directories of the phone are gone.
C12_DeleteRemoves ==
    [][ \A p \in Phones :
           DeleteAnswers(p)
           => /\ clients'[p] = None
              /\ getSessionPath(p) \notin authDirs'
              /\ getCachePath(p) \notin cacheDirs' ]_vars

\* fetchRegisteredPhones has returned after attempts that all failed.
AllFailed == fetcher.pc = "returned" /\ fetcher.failures = fetcher.fetches

\* fetchRegisteredPhones has returned after an attempt that did not fail.
Succeeded == fetcher.pc = "returned" /\ fetcher.failures < fetcher.fetches

\* C13: fetchRegisteredPhones(maxRetries, retryDelay) returns on every run.
\* When every attempt failed it has made exactly maxRetries fetch attempts
\* with maxRetries - 1 delays and returns the empty list; when an attempt
\* succeeded it returns the list of that attempt (the empty list when the
\* body is not a non-empty array), all attempts before it failed, and once
\* it has returned it makes no further attempt.
C13_FetchReturns ==
    /\ <>(fetcher.pc = "returned")
    /\ [](AllFailed => /\ fetcher.fetches = fetcher.maxRetries
                       /\ fetcher.delays = fetcher.maxRetries - 1
                       /\ fetcher.result = << >>)
    /\ [](Succeeded => /\ fetcher.fetches = fetcher.failures + 1
                       /\ fetcher.delays = fetcher.failures
                       /\ fetcher.result =
                            IF fetcher.body.kind = "array" THEN fetcher.body.list
                            ELSE << >>)
    /\ [][fetcher.pc = "returned" => fetcher' = fetcher]_vars

\* C13: a call with more than one attempt allowed has returned the empty
\* list after all of its attempts failed.
C13_Witness ==
    /\ AllFailed
    /\ fetcher.maxRetries > 1
    /\ fetcher.fetches = fetcher.maxRetries

\* C13: a call has returned the list of its second attempt.
C13_WitnessSuccess ==
    /\ Succeeded
    /\ fetcher.failures = 1
    /\ fetcher.result # << >>

\* Phone p is in the list and the bootstrap loop has not visited it yet.
Listed(p) == \E i \in 1 .. Len(boot.list) : boot.list[i] = p

\* The phones the bootstrap loop visits in this step.
Visited == { p \in BackendPhones : Listed(p) /\ ~Listed(p)' }

\* This step made the Client object c.
Created(c) == ~obj[c].used /\ obj'[c].used

\* C14: a step of the bootstrap makes a session exactly for the phones it
\* visits whose sanitized credential directory exists: that session is in
\* resume mode (no qr handler, no response to answer) and is put into the
\* registry under the listed phone; for a visited phone without the
\* directory nothing is made.  When initialize() of the session the loop
\* awaits fails, the phone's registry entry is removed and exactly one more
\* retry of initializeClient for the phone is pending.
C14_BootstrapResumes ==
    [][ /\ boot' # boot =>
             /\ \A c \in ClientIds :
                   Created(c) => /\ obj'[c].res = "default"
                                 /\ obj'[c].lib = "init"
                                 /\ obj'[c].phone \in Visited
                                 /\ Clean(obj'[c].phone) \in authDirs
                                 /\ clients'[obj'[c].phone] = c
             /\ \A p \in Visited :
                   IF Clean(p) \in authDirs
                   THEN \E c \in ClientIds : Created(c) /\ obj'[c].phone = p
                   ELSE /\ clients'[p] = clients[p]
                        /\ \A c \in ClientIds : Created(c) => obj'[c].phone # p
        /\ BootInitRejected =>
             LET p == obj[boot.cur].phone IN
             /\ clients'[p] = None
             /\ timers' = Append(timers, InitTimer(p))
      ]_vars

\* C14: the initialize() of a session the bootstrap resumed has failed, its
\* retry is pending and its registry entry is gone, and the loop has
\* resumed the next listed phone.
C14_Witness ==
    \E c \in ClientIds :
        /\ obj[c].used /\ obj[c].res = "default" /\ obj[c].lib = "rejected"
        /\ clients[obj[c].phone] = None
        /\ Pending(timers, "init", obj[c].phone) # {}
        /\ boot.pc = "await" /\ boot.cur # c
        /\ clients[obj[boot.cur].phone] = boot.cur

\* C15 as claimed: every listed phone with stored credentials eventually
\* has a registry entry, whether or not the initialize() of an earlier
\* phone's client ever completes.
C15_NoSessionBlocks ==
    \A p \in BackendPhones :
        (Listed(p) /\ HasSavedSession(p)) ~> (clients[p] # None)

\* The POSTs issued for event i.
Posts(i) == { k \in 1 .. Len(webhook) : webhook[k].msg = i }

\* C16 as claimed: the webhook POSTs for two accepted events of one phone
\* are issued in the order the events were emitted.
C16_EmissionOrder ==
    \A j, k \in 1 .. Len(webhook) :
        j < k /\ webhook[j].phone = webhook[k].phone
        => webhook[j].msg < webhook[k].msg

\* An address of an individual chat: something, then the server "@c.us".
Individual(address) == address # << >> /\ address[Len(address)] = "@c.us"

\* The sender of the event is the phone.
SentBy(message, phone) ==
    /\ Individual(message.from)
    /\ SubSeq(message.from, 1, Len(message.from) - 1) = phone

\* No POST and no file belong to an event that was dropped.
DroppedLeaveNothing ==
    \A i \in MsgIds : inbox[i].pc = "dropped" => Posts(i) = {} /\ i \notin files

\* C17: an event whose from or to is not an individual chat address, or
\* whose sender is the owning session's phone string, is dropped: its
\* handler returns at once and no POST and no file ever belong to it; every
\* other event is accepted: its handler goes on to the download or the POST.
C17_FilterDrops ==
    /\ DroppedLeaveNothing
    /\ [][ /\ DroppedLeaveNothing'
           /\ \A c \in ClientIds, message \in Events :
                 Message(c, message) =>
                    IF \/ ~Individual(message.from)
                       \/ ~Individual(message.to)
                       \/ SentBy(message, obj[c].phone)
                    THEN /\ inbox'[NextMsgId].pc = "dropped"
                         /\ webhook' = webhook /\ files' = files
                    ELSE inbox'[NextMsgId].pc \in {"download", "post"}
         ]_vars

\* C17: the session of the phone with a '+' has dropped an event (its own
\* message, or one of a group chat) and has accepted another one.
C17_Witness ==
    \E i, j \in MsgIds :
        /\ inbox[i].pc = "dropped" /\ inbox[i].owner = <<"+", "1">>
        /\ inbox[j].pc = "post" /\ inbox[j].owner = <<"+", "1">>

\* The last POST issued.
LastPost == webhook[Len(webhook)]

\* C18: when the download of an accepted media event gives a payload of
\* more than 16 MiB, no file is written and the event is POSTed with the
\* oversized notice as text and without media object; a payload of 16 MiB
\* or less is written to a file and POSTed with the media object and the
\* text the event had.
C18_SizePolicy ==
    [][ \A i \in MsgIds, media \in Downloads :
           Downloaded(i, media) /\ media.kind = "media"
           => /\ Len(webhook') = Len(webhook) + 1
              /\ webhook' = Append(webhook, LastPost')
              /\ LastPost'.msg = i
              /\ IF media.size > 16 * 1024 * 1024
                 THEN /\ files' = files
                      /\ ~LastPost'.media
                      /\ LastPost'.text = "too large"
                 ELSE /\ files' = files \cup {i}
                      /\ LastPost'.media
                      /\ LastPost'.text = inbox[i].text ]_vars

\* C18: an oversized media event was POSTed with the notice, without media
\* object and without a file, and a media event was stored and attached.
C18_Witness ==
    \E i, j \in MsgIds :
        /\ i \notin files /\ \E k \in Posts(i) : webhook[k].text = "too large" /\ ~webhook[k].media
        /\ j \in files /\ \E k \in Posts(j) : webhook[k].media

\* C19 as claimed: when the download of an accepted media event fails, by
\* giving nothing or by raising an error, the event is POSTed with the
\* fallback text and without media object.
C19_DownloadFailurePosts ==
    [][ \A i \in MsgIds, media \in Downloads :
           Downloaded(i, media) /\ media.kind \in {"nothing", "throws"}
           => /\ Len(webhook') = Len(webhook) + 1
              /\ webhook' = Append(webhook, LastPost')
              /\ LastPost'.msg = i
              /\ LastPost'.text = "not downloaded"
              /\ ~LastPost'.media ]_vars

\* C20 as claimed: every accepted event whose handler has finished was
\* POSTed exactly once, whatever the outcome of the POST, and none is
\* POSTed more than once.
C20_OnePostEach ==
    \A i \in MsgIds :
        /\ Cardinality(Posts(i)) <= 1
        /\ inbox[i].pc \in {"done", "caught"} => Cardinality(Posts(i)) = 1

\* The requests to /sendmsg that carry from, to and message.
Complete == SendBodies \ {"missing"}

\* client.sendMessage was called: the answer is its result or its error.
ReachedSend(answer) == answer \in {"sent", "500"}

\* C21 as claimed: every /sendmsg request with all required fields whose
\* from phone has a registry entry reaches the client's send.
C21_RegisteredReachesSend ==
    \A body \in Complete, sendOk \in BOOLEAN :
        clients[caller] # None => ReachedSend(SendAnswer(caller, body, sendOk))

\* 404 is answered exactly to the complete requests whose from phone has
\* no registry entry, and those send nothing; with a registry entry a text
\* and a file that exists reach the send.
NotConnectedIffAbsent ==
    \A body \in SendBodies, sendOk \in BOOLEAN :
        LET answer == SendAnswer(caller, body, sendOk) IN
        /\ answer = "404" <=> (body \in Complete /\ clients[caller] = None)
        /\ clients[caller] = None => ~ReachedSend(answer)
        /\ clients[caller] # None /\ body \in {"text", "file"} => ReachedSend(answer)

\* C21 amended: a /sendmsg request with all required fields and a from
\* phone without registry entry sends nothing, is answered 404 and
\* schedules one re-creation of the session of from, and changes nothing
\* else; with a registry entry a text request and a request whose file
\* exists reach the client's send; 404 is answered in no other case.
C21_NotConnected ==
    /\ []NotConnectedIffAbsent
    /\ [][ \A body \in Complete, sendOk \in BOOLEAN :
              clients[caller] = None /\ SendMsg(caller, body, sendOk)
              => /\ timers' = Append(timers, CreateTimer(caller))
                 /\ clients' = clients /\ obj' = obj /\ qrTimers' = qrTimers
         ]_vars

\* C21: the first request of a run was a /sendmsg for a phone without
\* session: its re-creation is pending and the phone has no session yet.
C21_Witness ==
    /\ timers = << CreateTimer(caller) >>
    /\ clients[caller] = None
    /\ \A c \in ClientIds : ~obj[c].used
    /\ SendAnswer(caller, "text", TRUE) = "404"

\* C22 as claimed: a /sendmsg request with a missing required field, with
\* an unsupported contentType or with a filePath that does not exist is
\* answered 400 in every registry state.
C22_BadRequestAlways400 ==
    \A body \in {"missing", "nofile", "unsupported"}, sendOk \in BOOLEAN :
        SendAnswer(caller, body, sendOk) = "400"

\* A request with a missing field is answered 400; one with an unsupported
\* contentType or a file that does not exist is answered 400 when from has
\* a registry entry and 404 when it has none.
BadRequestAnswers ==
    \A sendOk \in BOOLEAN :
        /\ SendAnswer(caller, "missing", sendOk) = "400"
        /\ \A body \in {"nofile", "unsupported"} :
              SendAnswer(caller, body, sendOk)
                 = IF clients[caller] = None THEN "404" ELSE "400"

\* C22 amended: a /sendmsg request with a missing required field is
\* answered 400 in every registry state; one with an unsupported
\* contentType or a filePath that does not exist is answered 400 when from
\* has a session (when it has none, the request is answered 404 and a
\* re-creation is scheduled); a request answered 400 changes no state.
C22_BadRequest ==
    /\ []BadRequestAnswers
    /\ [][ \A body \in SendBodies, sendOk \in BOOLEAN :
              SendAnswer(caller, body, sendOk) = "400"
                 /\ SendMsg(caller, body, sendOk)
              => UNCHANGED vars
         ]_vars

\* C22: from has a session, and a request with an unsupported contentType
\* is answered 400.
C22_Witness ==
    /\ clients[caller] # None
    /\ SendAnswer(caller, "unsupported", TRUE) = "400"
    /\ SendAnswer(caller, "nofile", TRUE) = "400"

\* A lifecycle event of client c is handled in this step: disconnected,
\* auth_failure, the rejection of initialize(), or its QR timeout.
LifecycleEvent(c) ==
    \/ Disconnected(c)
    \/ AuthFailure(c)
    \/ InitReject(c)
    \/ timers # << >> /\ Head(timers).client = c /\ QrTimeoutFires

\* C23 as claimed: a lifecycle event of a client that is not the registry's
\* entry for its phone neither removes the entry of the newer client nor
\* cancels the newer client's QR timer.
C23_StaleEventsHarmless ==
    [][ \A c \in ClientIds :
           /\ obj[c].used
           /\ clients[obj[c].phone] \notin {c, None}
           /\ LifecycleEvent(c)
           => /\ clients'[obj[c].phone] = clients[obj[c].phone]
              /\ QrArmed(timers, clients[obj[c].phone])
                    => QrArmed(timers', clients[obj[c].phone]) ]_vars

\* Client c was made for a register request and nothing of it is running
\* any more: it has ended by auth_failure or by the failure of initialize()
\* and none of its handlers is suspended.
RegistrationEnded(c) ==
    /\ obj[c].used /\ obj[c].res = "express"
    /\ obj[c].lib \in {"failed", "rejected"}
    /\ obj[c].qrAwait = 0 /\ ~obj[c].readyAwait

\* C24 as claimed: the response of a register request that started a
\* session is written once and never again, and it has been written when
\* the session's client has ended by auth_failure or by the failure of
\* initialize(), whatever qr and ready events came before.
C24_ExactlyOneResponse ==
    /\ [](\A c \in ClientIds : RegistrationEnded(c) => obj[c].answer # "none")
    /\ [][ \A c \in ClientIds :
              obj[c].used /\ obj[c].res = "express" /\ obj[c].answer # "none"
                 /\ obj'[c].used /\ obj'[c].phone = obj[c].phone
              => obj'[c].answer = obj[c].answer ]_vars

\* C25: under every interleaving of log() with the completions of the file
\* writes, at most one drain loop is active; the entries appended, the entry
\* being appended and the entries queued are, in this order, exactly the
\* entries of the calls of log() in the order of the calls (so every entry is
\* appended once, in call order); the queue is empty whenever no drain loop
\* is active; and every entry logged is eventually appended.
InFlight == IF writing = {} THEN << >> ELSE << CHOOSE e \in writing : TRUE >>
LoggerQueueOrdered ==
    LET all == written \o InFlight \o logQueue
    IN  /\ Len(all) = logged
        /\ \A i \in 1 .. Len(all) : all[i].n = i
Appended(n) == \E i \in 1 .. Len(written) : written[i].n = n
C25_LoggerQueue ==
    /\ [](/\ Cardinality(writing) <= 1
          /\ isProcessing <=> writing # {}
          /\ writing = {} => logQueue = << >>
          /\ LoggerQueueOrdered)
    /\ \A n \in 1 .. MaxLogs : (logged >= n) ~> Appended(n)
\* log() was called while a write was awaited, after earlier entries had been
\* appended: an entry is in flight and a later one waits in the queue.
C25_Witness ==
    /\ Len(written) >= 2
    /\ Cardinality(writing) = 1
    /\ logQueue # << >>
====
